---------------------------- MODULE Spec2Model ----------------------------
(***************************************************************************)
(* Model of notifier_pkg.notifier.TelegramNotifier.                        *)
(*                                                                         *)
(* Text read from the environment is a sequence of one-character strings,  *)
(* so that split / strip / startswith / int can be computed character by   *)
(* character.  Message bodies and prefixes are TLA+ strings joined by \o.  *)
(* The three emoji of the prefixes are written by their code points.       *)
(***************************************************************************)
EXTENDS Integers, Sequences, FiniteSets, TLC

(***************************************************************************)
(* Bounds of the model.                                                    *)
(***************************************************************************)
\* longest TELEGRAM_NOTIFIER_ALLOWED_IDS value enumerated exhaustively
MaxLen == 4
\* longest destination list used by the dispatch specifications
MaxDest == 3

(***************************************************************************)
(* Values.                                                                 *)
(***************************************************************************)
\* os.getenv returns None for an unset variable, otherwise its text
None == [isNone |-> TRUE, val |-> <<>>]
Some(s) == [isNone |-> FALSE, val |-> s]

\* a destination identifier is Union[str, int]
StrId(s) == [kind |-> "str", s |-> s, n |-> 0]
IntId(n) == [kind |-> "int", s |-> <<>>, n |-> n]

Digits == <<"0", "1", "2", "3", "4", "5", "6", "7", "8", "9">>
IsDigit(ch) == \E d \in 1..10 : Digits[d] = ch
DigitVal(ch) == (CHOOSE d \in 1..10 : Digits[d] = ch) - 1

(***************************************************************************)
(* str.split(','), str.strip(), str.startswith, int(str).                  *)
(***************************************************************************)
RECURSIVE split(_, _)
split(s, sep) ==
    IF \A i \in 1..Len(s) : s[i] # sep
    THEN <<s>>
    ELSE LET i == CHOOSE k \in 1..Len(s) :
                     s[k] = sep /\ \A j \in 1..(k - 1) : s[j] # sep
         IN  <<SubSeq(s, 1, i - 1)>> \o split(SubSeq(s, i + 1, Len(s)), sep)

RECURSIVE lstrip(_)
lstrip(s) == IF Len(s) > 0 /\ s[1] = " " THEN lstrip(Tail(s)) ELSE s

RECURSIVE rstrip(_)
rstrip(s) ==
    IF Len(s) > 0 /\ s[Len(s)] = " " THEN rstrip(SubSeq(s, 1, Len(s) - 1)) ELSE s

\* variant: the tokens are not trimmed
stripNothing(s) == s

strip(s) == rstrip(lstrip(s))

startswith(s, ch) == Len(s) > 0 /\ s[1] = ch

\* the digits part of an int literal: digits, single underscores between them
RECURSIVE digitsValue(_, _, _)
digitsValue(s, acc, prevDigit) ==
    IF Len(s) = 0
    THEN [ok |-> prevDigit, val |-> acc]
    ELSE IF IsDigit(s[1])
         THEN digitsValue(Tail(s), 10 * acc + DigitVal(s[1]), TRUE)
         ELSE IF s[1] = "_" /\ prevDigit
              THEN digitsValue(Tail(s), acc, FALSE)
              ELSE [ok |-> FALSE, val |-> 0]

\* int(s) in base 10; ok = FALSE stands for ValueError
int(s) ==
    LET t == strip(s)
        neg == startswith(t, "-")
        body == IF startswith(t, "-") \/ startswith(t, "+") THEN Tail(t) ELSE t
        r == digitsValue(body, 0, FALSE)
    IN  [ok |-> r.ok, val |-> IF neg THEN 0 - r.val ELSE r.val]

(***************************************************************************)
(* The try block of __init__: the loop over raw_ids.  The result is the    *)
(* list built so far and whether the block raised ValueError.              *)
(***************************************************************************)
RECURSIVE appendIds(_, _)
appendIds(raw_ids, acc) ==
    IF Len(raw_ids) = 0
    THEN [ok |-> Len(acc) > 0, ids |-> acc]
    ELSE LET chat_id == raw_ids[1]
         IN  IF startswith(chat_id, "@") \/ startswith(chat_id, "-")
             THEN appendIds(Tail(raw_ids), Append(acc, StrId(chat_id)))
             ELSE IF int(chat_id).ok
                  THEN appendIds(Tail(raw_ids), Append(acc, IntId(int(chat_id).val)))
                  ELSE [ok |-> FALSE, ids |-> acc]

parseAllowedIds(allowed_ids_str) ==
    LET parts == split(allowed_ids_str, ",")
        raw_ids == [k \in 1..Len(parts) |-> strip(parts[k])]
    IN  appendIds(raw_ids, <<>>)

\* "if not x" for an Optional[str]
falsy(v) == v.isNone \/ Len(v.val) = 0

(***************************************************************************)
(* State.                                                                  *)
(***************************************************************************)
VARIABLES
    env_token,         \* os.environ TELEGRAM_NOTIFIER_BOT_TOKEN
    env_ids,           \* os.environ TELEGRAM_NOTIFIER_ALLOWED_IDS
    ctor,              \* "new", "ok" or "failed": outcome of __init__
    raised,            \* message of the ValueError __init__ raised, or ""
    bot_token,         \* self.bot_token
    allowed_chat_ids,  \* self.allowed_chat_ids
    bot,               \* self.bot: None or the telegram.Bot made from a token
    pc,                \* per notify call: "idle", "gathering", "returned", "raised"
    args,              \* per notify call: its arguments (message, level)
    locals,            \* per notify call: level and full_message after line 148
    tasks,             \* per notify call: the _send_single_message tasks of line 152
    sends,             \* per notify call: the bot.send_message calls received
    log,               \* per notify call: the records notify itself logged
    cancel_requested,  \* per notify call: the awaiting task was cancelled
    exc                \* per notify call: the exception it ended with, or ""

cfgvars == <<env_token, env_ids, ctor, raised, bot_token, allowed_chat_ids, bot>>
callvars == <<pc, args, locals, tasks, sends, log, cancel_requested, exc>>
vars == <<cfgvars, callvars>>

telegramBot(token) == Some(token)

\* variant: the Bot is created before the inputs are validated
ConstructBotFirst ==
    /\ ctor = "new"
    /\ bot_token' = env_token
    /\ bot' = telegramBot(env_token.val)
    /\ IF falsy(env_token)
       THEN /\ ctor' = "failed"
            /\ raised' = "TELEGRAM_NOTIFIER_BOT_TOKEN is not configured."
            /\ UNCHANGED allowed_chat_ids
       ELSE IF falsy(env_ids)
       THEN /\ ctor' = "failed"
            /\ raised' = "TELEGRAM_NOTIFIER_ALLOWED_IDS is not configured."
            /\ UNCHANGED allowed_chat_ids
       ELSE LET r == parseAllowedIds(env_ids.val)
            IN  /\ allowed_chat_ids' = r.ids
                /\ ctor' = IF r.ok THEN "ok" ELSE "failed"
                /\ raised' = IF r.ok THEN "" ELSE "Invalid format for TELEGRAM_ALLOWED_IDS."
    /\ UNCHANGED <<env_token, env_ids>>
    /\ UNCHANGED callvars

(***************************************************************************)
(* TelegramNotifier.__init__                                               *)
(***************************************************************************)
Construct ==
    /\ ctor = "new"
    /\ bot_token' = env_token
    /\ IF falsy(env_token)
       THEN /\ ctor' = "failed"
            /\ raised' = "TELEGRAM_NOTIFIER_BOT_TOKEN is not configured."
            /\ UNCHANGED <<allowed_chat_ids, bot>>
       ELSE IF falsy(env_ids)
       THEN /\ ctor' = "failed"
            /\ raised' = "TELEGRAM_NOTIFIER_ALLOWED_IDS is not configured."
            /\ UNCHANGED <<allowed_chat_ids, bot>>
       ELSE LET r == parseAllowedIds(env_ids.val)
            IN  /\ allowed_chat_ids' = r.ids
                /\ IF r.ok
                   THEN /\ ctor' = "ok"
                        /\ raised' = ""
                        /\ bot' = telegramBot(env_token.val)
                   ELSE /\ ctor' = "failed"
                        /\ raised' = "Invalid format for TELEGRAM_ALLOWED_IDS."
                        /\ UNCHANGED bot
    /\ UNCHANGED <<env_token, env_ids>>
    /\ UNCHANGED callvars


(***************************************************************************)
(* Severity levels as Python values: a type and a number (a float is held  *)
(* in tenths, a bool as 0 or 1, a str or None carries no number).          *)
(***************************************************************************)
IntL(n) == [type |-> "int", v |-> n]
BoolL(b) == [type |-> "bool", v |-> IF b THEN 1 ELSE 0]
FloatL(tenths) == [type |-> "float", v |-> tenths]
StrL == [type |-> "str", v |-> 0]
NoneL == [type |-> "NoneType", v |-> 0]

\* isinstance(level, int): bool is a subclass of int
isinstanceInt(level) == level.type \in {"int", "bool"}

\* level == k for an int k
pyEq(level, k) ==
    CASE level.type \in {"int", "bool"} -> level.v = k
      [] level.type = "float" -> level.v = 10 * k
      [] OTHER -> FALSE

\* level in [1, 2, 3]
inLevels(level) == \E k \in {1, 2, 3} : pyEq(level, k)

\* variant: line 136 without the isinstance test
invalidLevelNoTypeTest(level) == ~inLevels(level)

\* line 136
invalidLevel(level) == ~isinstanceInt(level) \/ ~inLevels(level)

\* lines 136-138
resolveLevel(level) == IF invalidLevel(level) THEN IntL(1) ELSE level

\* lines 140-146
prefixOf(level) ==
    IF pyEq(level, 1) THEN "U+2139 U+FE0F [INFO]"
    ELSE IF pyEq(level, 2) THEN "U+26A0 U+FE0F [WARNING]"
    ELSE IF pyEq(level, 3) THEN "U+274C [ERROR]"
    ELSE ""

\* variant: one newline between prefix and body
fullMessageOneNewline(prefix, message) == prefix \o "\n" \o message

\* line 148
fullMessage(prefix, message) == prefix \o "\n\n" \o message

\* variant: without the catch-all clause of lines 169-170
exceptClausesTelegramOnly(e) ==
    CASE e = "TelegramError" -> {"failed"}
      [] e = "Exception" -> {"propagates"}
      [] e = "CancelledError" -> {"propagates"}

\* variant: the clause of line 167 logs and raises again
exceptClausesReraise(e) ==
    CASE e = "TelegramError" -> {"propagates"}
      [] e = "Exception" -> {"unexpected"}
      [] e = "CancelledError" -> {"propagates", "unexpected"}

(***************************************************************************)
(* The except clauses of _send_single_message: what becomes of exception   *)
(* e raised at the await of line 165.  CancelledError derives from         *)
(* BaseException since Python 3.8 and from Exception before, so both       *)
(* outcomes are possible for it.                                           *)
(***************************************************************************)
exceptClauses(e) ==
    CASE e = "TelegramError" -> {"failed"}
      [] e = "Exception" -> {"unexpected"}
      [] e = "CancelledError" -> {"propagates", "unexpected"}

TransportErrors == {"TelegramError", "Exception"}

Calls == {1, 2}

NoLog == [warning |-> FALSE, level |-> NoneL, destinations |-> 0, completion |-> FALSE]

newTask(chat_id, text) ==
    [chat_id |-> chat_id, text |-> text, st |-> "pending", cancel |-> FALSE,
     logged |-> "", exc |-> ""]

settled(t) == t.st \in {"done", "raised"}
allSettled(c) == \A i \in 1..Len(tasks[c]) : settled(tasks[c][i])
someRaised(c) == \E i \in 1..Len(tasks[c]) : tasks[c][i].st = "raised"

\* the event loop runs ready callbacks in the order they were scheduled
turnOf(c, i) == \A j \in 1..(i - 1) : tasks[c][j].st # "pending"

(***************************************************************************)
(* notify, lines 136-156: everything up to the await of asyncio.gather.    *)
(* A call slot c is taken again only when the tasks of its previous call   *)
(* are done.                                                               *)
(***************************************************************************)
Notify(c, message, level) ==
    /\ ctor = "ok"
    /\ pc[c] \in {"idle", "returned", "raised"}
    /\ allSettled(c)
    /\ LET lvl == resolveLevel(level)
           full_message == fullMessage(prefixOf(lvl), message)
       IN  /\ args' = [args EXCEPT ![c] = [message |-> message, level |-> level]]
           /\ locals' = [locals EXCEPT ![c] = [level |-> lvl, full_message |-> full_message]]
           /\ log' = [log EXCEPT ![c] =
                        [warning |-> invalidLevel(level), level |-> lvl,
                         destinations |-> Len(allowed_chat_ids), completion |-> FALSE]]
           /\ tasks' = [tasks EXCEPT ![c] =
                          [k \in 1..Len(allowed_chat_ids) |->
                              newTask(allowed_chat_ids[k], full_message)]]
    /\ sends' = [sends EXCEPT ![c] = <<>>]
    /\ cancel_requested' = [cancel_requested EXCEPT ![c] = FALSE]
    /\ exc' = [exc EXCEPT ![c] = ""]
    /\ pc' = [pc EXCEPT ![c] = "gathering"]
    /\ UNCHANGED cfgvars

(***************************************************************************)
(* _send_single_message, line 165: the task's first step calls             *)
(* bot.send_message and suspends on it.                                    *)
(***************************************************************************)
StartSend(c, i) ==
    /\ i \in 1..Len(tasks[c])
    /\ tasks[c][i].st = "pending"
    /\ ~tasks[c][i].cancel
    /\ turnOf(c, i)
    /\ tasks' = [tasks EXCEPT ![c][i].st = "sending"]
    /\ sends' = [sends EXCEPT ![c] = Append(@,
                    [task |-> i, chat_id |-> tasks[c][i].chat_id, text |-> tasks[c][i].text,
                     parse_mode |-> "Markdown", result |-> "inflight"])]
    /\ UNCHANGED <<cfgvars, pc, args, locals, log, cancel_requested, exc>>

\* the transport's record of the call task i made
sendOf(c, i) == CHOOSE k \in 1..Len(sends[c]) : sends[c][k].task = i

\* line 166: send_message returned
SendReturns(c, i) ==
    /\ i \in 1..Len(tasks[c])
    /\ tasks[c][i].st = "sending"
    /\ ~tasks[c][i].cancel
    /\ tasks' = [tasks EXCEPT ![c][i].st = "done", ![c][i].logged = "success"]
    /\ sends' = [sends EXCEPT ![c][sendOf(c, i)].result = "ok"]
    /\ UNCHANGED <<cfgvars, pc, args, locals, log, cancel_requested, exc>>

\* the task's state after exception e reached the try block of line 164
afterException(t, e, outcome) ==
    IF outcome = "propagates"
    THEN [t EXCEPT !.st = "raised", !.exc = e]
    ELSE [t EXCEPT !.st = "done", !.logged = outcome]

\* variant: a failed send is scheduled again
SendRaisesRetries(c, i, e) ==
    /\ i \in 1..Len(tasks[c])
    /\ tasks[c][i].st = "sending"
    /\ ~tasks[c][i].cancel
    /\ e \in TransportErrors
    /\ tasks' = [tasks EXCEPT ![c][i].st = "pending"]
    /\ sends' = [sends EXCEPT ![c][sendOf(c, i)].result = e]
    /\ UNCHANGED <<cfgvars, pc, args, locals, log, cancel_requested, exc>>

\* variant: a destination whose send failed is dropped from the list
SendRaisesDropsDestination(c, i, e) ==
    /\ i \in 1..Len(tasks[c])
    /\ tasks[c][i].st = "sending"
    /\ ~tasks[c][i].cancel
    /\ e \in TransportErrors
    /\ \E outcome \in exceptClauses(e) :
          tasks' = [tasks EXCEPT ![c][i] = afterException(@, e, outcome)]
    /\ sends' = [sends EXCEPT ![c][sendOf(c, i)].result = e]
    /\ allowed_chat_ids' = SelectSeq(allowed_chat_ids, LAMBDA d : d # tasks[c][i].chat_id)
    /\ UNCHANGED <<env_token, env_ids, ctor, raised, bot_token, bot>>
    /\ UNCHANGED <<pc, args, locals, log, cancel_requested, exc>>

\* lines 167-170: send_message raised e
SendRaises(c, i, e) ==
    /\ i \in 1..Len(tasks[c])
    /\ tasks[c][i].st = "sending"
    /\ ~tasks[c][i].cancel
    /\ e \in TransportErrors
    /\ \E outcome \in exceptClauses(e) :
          tasks' = [tasks EXCEPT ![c][i] = afterException(@, e, outcome)]
    /\ sends' = [sends EXCEPT ![c][sendOf(c, i)].result = e]
    /\ UNCHANGED <<cfgvars, pc, args, locals, log, cancel_requested, exc>>

(***************************************************************************)
(* Cancellation of the task awaiting notify while it is suspended at line  *)
(* 156: the gather future passes the request to every child not yet done.  *)
(***************************************************************************)
Cancel(c) ==
    /\ pc[c] = "gathering"
    /\ ~cancel_requested[c]
    /\ cancel_requested' = [cancel_requested EXCEPT ![c] = TRUE]
    /\ tasks' = [tasks EXCEPT ![c] =
                   [k \in 1..Len(tasks[c]) |->
                       IF settled(tasks[c][k]) THEN tasks[c][k]
                       ELSE [tasks[c][k] EXCEPT !.cancel = TRUE]]]
    /\ UNCHANGED <<cfgvars, pc, args, locals, sends, log, exc>>

\* a cancelled task's next step: CancelledError is thrown into the coroutine,
\* before its first statement if it never ran, else at the await of line 165
CancelDelivered(c, i) ==
    /\ i \in 1..Len(tasks[c])
    /\ tasks[c][i].cancel
    /\ \/ /\ tasks[c][i].st = "pending"
          /\ turnOf(c, i)
          /\ tasks' = [tasks EXCEPT ![c][i] =
                          afterException(@, "CancelledError", "propagates")]
          /\ UNCHANGED sends
       \/ /\ tasks[c][i].st = "sending"
          /\ \E outcome \in exceptClauses("CancelledError") :
                tasks' = [tasks EXCEPT ![c][i] =
                             afterException(@, "CancelledError", outcome)]
          /\ sends' = [sends EXCEPT ![c][sendOf(c, i)].result = "CancelledError"]
    /\ UNCHANGED <<cfgvars, pc, args, locals, log, cancel_requested, exc>>

(***************************************************************************)
(* notify, lines 156-157: asyncio.gather without return_exceptions wakes    *)
(* the awaiting coroutine when every child is done, or as soon as          *)
(* one child has ended with an exception, which it raises.                 *)
(***************************************************************************)
gatherException(c) ==
    IF someRaised(c)
    THEN LET i == CHOOSE k \in 1..Len(tasks[c]) : tasks[c][k].st = "raised"
         IN  tasks[c][i].exc
    ELSE IF cancel_requested[c] THEN "CancelledError" ELSE ""

\* variant: the join returns when the first child is done
GatherResumesFirstCompleted(c) ==
    /\ pc[c] = "gathering"
    /\ \E i \in 1..Len(tasks[c]) : settled(tasks[c][i])
    /\ IF gatherException(c) # ""
       THEN /\ pc' = [pc EXCEPT ![c] = "raised"]
            /\ exc' = [exc EXCEPT ![c] = gatherException(c)]
            /\ UNCHANGED log
       ELSE /\ pc' = [pc EXCEPT ![c] = "returned"]
            /\ log' = [log EXCEPT ![c].completion = TRUE]
            /\ UNCHANGED exc
    /\ UNCHANGED <<cfgvars, args, locals, tasks, sends, cancel_requested>>

GatherResumes(c) ==
    /\ pc[c] = "gathering"
    /\ allSettled(c) \/ someRaised(c)
    /\ IF gatherException(c) # ""
       THEN /\ pc' = [pc EXCEPT ![c] = "raised"]
            /\ exc' = [exc EXCEPT ![c] = gatherException(c)]
            /\ UNCHANGED log
       ELSE /\ pc' = [pc EXCEPT ![c] = "returned"]
            /\ log' = [log EXCEPT ![c].completion = TRUE]
            /\ UNCHANGED exc
    /\ UNCHANGED <<cfgvars, args, locals, tasks, sends, cancel_requested>>

(***************************************************************************)
(* Inputs.                                                                 *)
(***************************************************************************)
Tokens == {None, Some(<<>>), Some(<<"t", "o", "k">>)}

\* "@chan,-100123,555", the example of the comment at line 67
ExampleIds ==
    <<"@", "c", "h", "a", "n", ",", "-", "1", "0", "0", "1", "2", "3", ",", "5", "5", "5">>

DestTokens == << <<"@", "c", "h", "a", "n">>, <<"-", "1", "0", "0", "1", "2", "3">>,
                 <<"5", "5", "5">> >>

\* the first k tokens of "@chan,-100123,555,@chan,..." joined by commas
RECURSIVE destList(_)
destList(k) ==
    LET tok == DestTokens[((k - 1) % Len(DestTokens)) + 1]
    IN  IF k = 1 THEN tok ELSE destList(k - 1) \o <<",">> \o tok

DispatchIds ==
    {destList(k) : k \in 1..MaxDest}
        \cup {<<"5", ",", "5">>, <<"a", "b", "c">>, <<"5", ",", ",", "7">>}

Alphabet == {"@", "-", ",", " ", "5", "1", "a", "+", "_"}
BoundedStrings == UNION {[1..n -> Alphabet] : n \in 0..MaxLen}

Messages == {"", "x", "*b* _i_"}

Levels ==
    {IntL(n) : n \in -1..4}
        \cup {BoolL(TRUE), BoolL(FALSE), FloatL(10), FloatL(20), FloatL(25), StrL, NoneL}

ConcMessages == {"x"}
ConcLevels == {IntL(3), IntL(0)}

(***************************************************************************)
(* Specifications.                                                         *)
(***************************************************************************)
InitCalls ==
    /\ pc = [c \in Calls |-> "idle"]
    /\ args = [c \in Calls |-> [message |-> "", level |-> NoneL]]
    /\ locals = [c \in Calls |-> [level |-> NoneL, full_message |-> ""]]
    /\ tasks = [c \in Calls |-> <<>>]
    /\ sends = [c \in Calls |-> <<>>]
    /\ log = [c \in Calls |-> NoLog]
    /\ cancel_requested = [c \in Calls |-> FALSE]
    /\ exc = [c \in Calls |-> ""]

InitObject ==
    /\ ctor = "new"
    /\ raised = ""
    /\ bot_token = None
    /\ allowed_chat_ids = <<>>
    /\ bot = None

\* one notifier, one notify call at a time
Init ==
    /\ env_token \in Tokens
    /\ env_ids \in {None, Some(<<>>)} \cup {Some(s) : s \in DispatchIds}
    /\ InitObject
    /\ InitCalls

Step(c) ==
    \/ \E i \in 1..Len(tasks[c]) : StartSend(c, i)
    \/ \E i \in 1..Len(tasks[c]) : SendReturns(c, i)
    \/ \E i \in 1..Len(tasks[c]), e \in TransportErrors : SendRaises(c, i, e)
    \/ Cancel(c)
    \/ \E i \in 1..Len(tasks[c]) : CancelDelivered(c, i)
    \/ GatherResumes(c)

Next ==
    \/ Construct
    \/ \E message \in Messages, level \in Levels : Notify(1, message, level)
    \/ Step(1)

Spec == Init /\ [][Next]_vars

\* the constructor alone, over every short value of the destination list
InitCfg ==
    /\ env_token \in Tokens
    /\ env_ids \in {None} \cup {Some(s) : s \in BoundedStrings \cup {ExampleIds}}
    /\ InitObject
    /\ InitCalls

NextCfg == Construct

SpecCfg == InitCfg /\ [][NextCfg]_vars

\* one notifier, two notify calls in flight on the same event loop
InitConc ==
    /\ env_token = Some(<<"t", "o", "k">>)
    /\ env_ids = Some(destList(MaxDest - 1))
    /\ InitObject
    /\ InitCalls

NextConc ==
    \/ Construct
    \/ \E c \in Calls, message \in ConcMessages, level \in ConcLevels :
          Notify(c, message, level)
    \/ \E c \in Calls : Step(c)

SpecConc == InitConc /\ [][NextConc]_vars

(***************************************************************************)
(* Vocabulary of the properties, stated apart from the code's algorithms.  *)
(***************************************************************************)
taskIndices(c) == 1..Len(tasks[c])
sendIndices(c) == 1..Len(sends[c])
failedSends(c) == {k \in sendIndices(c) : sends[c][k].result \in TransportErrors}
okSends(c) == {k \in sendIndices(c) : sends[c][k].result = "ok"}
failureRecords(c) == {i \in taskIndices(c) : tasks[c][i].logged \in {"failed", "unexpected"}}
successRecords(c) == {i \in taskIndices(c) : tasks[c][i].logged = "success"}
resultsOf(c) == [k \in sendIndices(c) |-> sends[c][k].result]
textsOf(c) == [k \in sendIndices(c) |-> sends[c][k].text]
destinationsOf(c) == [i \in taskIndices(c) |-> tasks[c][i].chat_id]

C2_OneAttemptPerEntry ==
    \A c \in Calls :
        /\ Len(sends[c]) <= Len(tasks[c])
        /\ \A k \in sendIndices(c) :
              /\ sends[c][k].task = k
              /\ sends[c][k].chat_id = allowed_chat_ids[k]
              /\ sends[c][k].text = locals[c].full_message
        /\ pc[c] = "returned" =>
              /\ Len(sends[c]) = Len(allowed_chat_ids)
              /\ failedSends(c) \cup okSends(c) = sendIndices(c)
              /\ Cardinality(failureRecords(c)) = Cardinality(failedSends(c))
              /\ Cardinality(successRecords(c)) =
                    Len(allowed_chat_ids) - Cardinality(failedSends(c))
              /\ failureRecords(c) = failedSends(c)

C2_Witness ==
    /\ pc[1] = "returned"
    /\ Len(allowed_chat_ids) = 3
    /\ resultsOf(1) = <<"ok", "TelegramError", "ok">>
    /\ Cardinality(failureRecords(1)) = 1
    /\ Cardinality(successRecords(1)) = 2

\* C3: a send whose turn has come can be initiated whatever the state of the
\* other sends (it waits for none of them to settle), and notify logs its
\* completion marker and returns only when every send has settled.
C3_InitiatedTogetherJoinedAll ==
    \A c \in Calls :
        /\ (log[c].completion \/ pc[c] = "returned") => allSettled(c)
        /\ log[c].completion <=> pc[c] = "returned"
        /\ \A i \in taskIndices(c) :
              (tasks[c][i].st = "pending" /\ ~tasks[c][i].cancel /\ turnOf(c, i))
                  => ENABLED StartSend(c, i)

C3_Witness ==
    /\ pc[1] = "gathering"
    /\ ~log[1].completion
    /\ Len(tasks[1]) = 3
    /\ tasks[1][1].logged = "failed"
    /\ tasks[1][2].st = "sending"
    /\ tasks[1][3].st = "sending"

\* C4 as stated: whenever a notify call has ended, every destination's send
\* ran to completion or to an individually caught failure, also when the
\* task awaiting notify was cancelled.
C4_NoCancellationPath ==
    \A c \in Calls :
        pc[c] \in {"returned", "raised"} =>
            \A i \in taskIndices(c) :
                tasks[c][i].st = "done" /\ tasks[c][i].logged # ""

\* C4 amended: a notify call that is not cancelled from outside ends only by
\* returning, after every send ran to completion or to a caught failure; the
\* only other way out is the cancellation of the awaiting task, which ends
\* notify with CancelledError and no completion marker, and only a cancelled
\* send ends with an uncaught exception, which is CancelledError, and a
\* cancelled send that had not started is never attempted.
C4_CancellationIsTheOnlyWayOut ==
    \A c \in Calls :
        /\ pc[c] = "returned" =>
              /\ ~cancel_requested[c]
              /\ \A i \in taskIndices(c) :
                    tasks[c][i].st = "done" /\ tasks[c][i].logged # ""
        /\ pc[c] = "raised" =>
              cancel_requested[c] /\ exc[c] = "CancelledError" /\ ~log[c].completion
        /\ \A i \in taskIndices(c) :
              /\ tasks[c][i].st = "raised" =>
                    tasks[c][i].cancel /\ tasks[c][i].exc = "CancelledError"
              /\ (tasks[c][i].st = "pending" /\ tasks[c][i].cancel) =>
                    ~ENABLED StartSend(c, i)

C4_Witness ==
    /\ pc[1] = "raised"
    /\ exc[1] = "CancelledError"
    /\ Len(tasks[1]) = 3
    /\ Len(sends[1]) = 2
    /\ tasks[1][1].logged = "success"
    /\ tasks[1][2].st = "raised"
    /\ sends[1][2].result = "CancelledError"
    /\ tasks[1][3].st = "raised"

(***************************************************************************)
(* The grammar of the destination list, stated from the positions of the   *)
(* commas rather than by splitting.                                        *)
(***************************************************************************)
commaPositions(s) == {i \in 1..Len(s) : s[i] = ","}
tokenCount(s) == Cardinality(commaPositions(s)) + 1

\* position of the k-th comma; 0 before the first token, Len(s) + 1 after the last
commaAt(s, k) ==
    IF k = 0 THEN 0
    ELSE IF k = tokenCount(s) THEN Len(s) + 1
    ELSE CHOOSE i \in commaPositions(s) :
             Cardinality({j \in commaPositions(s) : j < i}) = k - 1

rawToken(s, k) == SubSeq(s, commaAt(s, k - 1) + 1, commaAt(s, k) - 1)

trimmed(t) ==
    LET inked == {i \in 1..Len(t) : t[i] # " "}
    IN  IF inked = {} THEN <<>>
        ELSE SubSeq(t, CHOOSE i \in inked : \A j \in inked : i <= j,
                       CHOOSE i \in inked : \A j \in inked : i >= j)

tokenAt(s, k) == trimmed(rawToken(s, k))

isPrefixed(t) == Len(t) > 0 /\ t[1] \in {"@", "-"}

unsigned(t) == IF Len(t) > 0 /\ t[1] = "+" THEN Tail(t) ELSE t

\* a base-10 integer literal: digits, with single underscores between digits
isIntLiteral(t) ==
    LET b == unsigned(t)
    IN  /\ Len(b) > 0
        /\ IsDigit(b[1]) /\ IsDigit(b[Len(b)])
        /\ \A i \in 1..Len(b) : IsDigit(b[i]) \/ b[i] = "_"
        /\ \A i \in 1..(Len(b) - 1) : ~(b[i] = "_" /\ b[i + 1] = "_")

RECURSIVE denotes(_)
denotes(ds) ==
    IF Len(ds) = 0 THEN 0
    ELSE DigitVal(ds[Len(ds)]) + 10 * denotes(SubSeq(ds, 1, Len(ds) - 1))

expectedId(t) ==
    IF isPrefixed(t) THEN StrId(t) ELSE IntId(denotes(SelectSeq(unsigned(t), IsDigit)))

wellFormedIds(s) ==
    \A k \in 1..tokenCount(s) : isPrefixed(tokenAt(s, k)) \/ isIntLiteral(tokenAt(s, k))

badConfiguration ==
    \/ env_token.isNone \/ env_token.val = <<>>
    \/ env_ids.isNone \/ env_ids.val = <<>>
    \/ ~wellFormedIds(env_ids.val)

\* C5: when the token or the destination list is unset or empty, or a
\* destination token is neither '@'/'-'-prefixed nor an integer, the
\* constructor raises and no telegram.Bot has been created; a Bot exists only
\* when both inputs passed validation, and a notifier whose construction
\* failed never sends.
C5_FailFast ==
    /\ (ctor # "new" /\ badConfiguration) => ctor = "failed"
    /\ ctor = "failed" =>
          /\ raised # ""
          /\ bot = None
          /\ \A c \in Calls : pc[c] = "idle" /\ sends[c] = <<>> /\ tasks[c] = <<>>
    /\ bot # None =>
          /\ ctor = "ok"
          /\ ~badConfiguration
          /\ bot = Some(env_token.val)
    /\ ctor = "new" => bot = None
    /\ \A c \in Calls : sends[c] # <<>> => ctor = "ok"

C5_Witness ==
    /\ ctor = "failed"
    /\ raised = "Invalid format for TELEGRAM_ALLOWED_IDS."
    /\ env_ids = Some(<<"5", ",", ",", "7">>)
    /\ allowed_chat_ids = <<IntId(5)>>
    /\ bot = None

\* C6: a destination list that resolves yields one identifier per
\* comma-separated token, in order: the trimmed token itself when it begins
\* with '@' or '-', else the integer it denotes; a list with any other token
\* (an empty one included) does not resolve; "@chan,-100123,555" resolves to
\* ["@chan", "-100123", 555].
C6_Resolution ==
    (ctor # "new" /\ ~falsy(env_token) /\ ~falsy(env_ids)) =>
        LET s == env_ids.val
        IN  /\ ctor = "ok" <=> wellFormedIds(s)
            /\ ctor = "ok" =>
                  /\ Len(allowed_chat_ids) = tokenCount(s)
                  /\ \A k \in 1..tokenCount(s) :
                        allowed_chat_ids[k] = expectedId(tokenAt(s, k))
            /\ (s = ExampleIds) =>
                  allowed_chat_ids =
                      <<StrId(<<"@", "c", "h", "a", "n">>),
                        StrId(<<"-", "1", "0", "0", "1", "2", "3">>),
                        IntId(555)>>

C6_Witness ==
    /\ ctor = "ok"
    /\ env_ids = Some(ExampleIds)
    /\ Len(allowed_chat_ids) = 3
    /\ allowed_chat_ids[3] = IntId(555)

(***************************************************************************)
(* The texts the documentation promises.                                   *)
(***************************************************************************)
infoText(message) == "U+2139 U+FE0F [INFO]" \o "\n\n" \o message

documentedPrefix(k) ==
    CASE k = 1 -> "U+2139 U+FE0F [INFO]"
      [] k = 2 -> "U+26A0 U+FE0F [WARNING]"
      [] k = 3 -> "U+274C [ERROR]"

\* a severity that is not one of the integers 1, 2, 3
outsideLevels(level) == ~(level.type = "int" /\ level.v \in {1, 2, 3})

called(c) == pc[c] # "idle"

\* C7 as stated: for every severity other than the integers 1, 2, 3
\* (booleans included) the text is the one of severity 1 and a warning is
\* recorded.
C7_InvalidLevelWarnsAndIsInfo ==
    \A c \in Calls :
        (called(c) /\ outsideLevels(args[c].level)) =>
            /\ log[c].warning
            /\ locals[c].full_message = infoText(args[c].message)
            /\ \A k \in sendIndices(c) : sends[c][k].text = infoText(args[c].message)

\* C7 amended: for every severity other than the integers 1, 2, 3 the text
\* sent is the one of severity 1 and notify never raises because of the
\* level; a warning is recorded for each such severity except the boolean
\* True, which equals 1 and is taken as level 1 silently.
C7_InvalidLevelIsInfo ==
    \A c \in Calls :
        (called(c) /\ outsideLevels(args[c].level)) =>
            /\ log[c].warning <=> args[c].level # BoolL(TRUE)
            /\ locals[c].full_message = infoText(args[c].message)
            /\ \A k \in sendIndices(c) : sends[c][k].text = infoText(args[c].message)
            /\ pc[c] = "raised" => cancel_requested[c]

C7_Witness ==
    /\ pc[1] = "returned"
    /\ args[1].level = BoolL(TRUE)
    /\ ~log[1].warning
    /\ Len(sends[1]) > 0
    /\ sends[1][1].text = infoText("x")

\* C8: for severity 1, 2 or 3 the text passed to every send is the level's
\* prefix, two newlines and the body as given, and no warning is recorded.
C8_ValidLevelText ==
    \A c \in Calls :
        \A k \in {1, 2, 3} :
            (called(c) /\ args[c].level = IntL(k)) =>
                /\ ~log[c].warning
                /\ locals[c].full_message = documentedPrefix(k) \o "\n\n" \o args[c].message
                /\ \A j \in sendIndices(c) :
                      sends[c][j].text = documentedPrefix(k) \o "\n\n" \o args[c].message

C8_Witness ==
    /\ pc[1] = "returned"
    /\ args[1] = [message |-> "*b* _i_", level |-> IntL(3)]
    /\ Len(sends[1]) = 3
    /\ textsOf(1) = [k \in 1..3 |-> "U+274C [ERROR]\n\n*b* _i_"]

\* C9: once constructed, no step of any notify call changes the destination
\* list, the token or the transport handle, and the list is not empty; each
\* call's sends go to the constructed list with the text composed from that
\* call's own arguments, so two calls with the same arguments send the same
\* thing whatever happened to the other call's sends.
C9_State ==
    ctor = "ok" =>
        /\ Len(allowed_chat_ids) > 0
        /\ bot_token = env_token
        /\ bot = Some(env_token.val)
        /\ \A c \in Calls :
              called(c) =>
                  /\ destinationsOf(c) = allowed_chat_ids
                  /\ \A i \in taskIndices(c) :
                        tasks[c][i].text =
                            fullMessage(prefixOf(resolveLevel(args[c].level)), args[c].message)
                  /\ \A k \in sendIndices(c) :
                        /\ sends[c][k].chat_id = allowed_chat_ids[sends[c][k].task]
                        /\ sends[c][k].text = tasks[c][sends[c][k].task].text
        /\ \A c1, c2 \in Calls :
              (called(c1) /\ called(c2) /\ args[c1] = args[c2]) =>
                  /\ destinationsOf(c1) = destinationsOf(c2)
                  /\ \A i \in taskIndices(c1) : tasks[c1][i].text = tasks[c2][i].text

C9_ConfigurationFrozen ==
    /\ []C9_State
    /\ [][ctor = "ok" => UNCHANGED <<bot_token, allowed_chat_ids, bot>>]_vars

C9_Witness ==
    /\ args[1] = args[2]
    /\ pc[1] = "returned"
    /\ failedSends(1) = {1, 2}
    /\ pc[2] = "gathering"
    /\ Len(sends[2]) = 2
    /\ sends[2][1].result = "ok"
    /\ sends[2][2].result = "inflight"
    /\ textsOf(2) = textsOf(1)

\* C10: an exception raised by a per-destination send propagates through
\* asyncio.gather to the caller of notify, so notify never returns normally
\* from a call in which a send raised.
C10_SendExceptionPropagates ==
    \A c \in Calls : pc[c] = "returned" => failedSends(c) = {}

=============================================================================
